---- MODULE Spec2Model ----
(***************************************************************************)
(* Model of qkview-ihealth.py: read the API keys file, obtain an access    *)
(* token from the keys in reverse order, create a qkview with the local    *)
(* `qkview` command and upload it with `curl`.                             *)
(*                                                                         *)
(* Strings that the program inspects character by character (the lines of  *)
(* the API keys file) are sequences of one-character strings.  Python      *)
(* indexes are 0-based, the sequences here are 1-based.                    *)
(***************************************************************************)
EXTENDS Integers, Sequences, FiniteSets, TLC

\* Longest API keys file (in lines) the model explores.
MaxLines == 3

\* Python's None.
None == "<None>"

Whitespace == {" "}

\* Lines an API keys file is made of: blank ones, well-formed id:secret
\* pairs (with and without surrounding blanks), a line without a colon and a
\* line whose secret contains a colon.
Lines ==
    { <<>>,
      <<" ">>,
      <<"a", ":", "x">>,
      <<" ", "b", ":", "y", " ">>,
      <<"c">>,
      <<"d", ":", "z", ":", "w">> }

RECURSIVE SeqsUpTo(_, _)
SeqsUpTo(S, n) ==
    IF n = 0 THEN { <<>> }
    ELSE LET shorter == SeqsUpTo(S, n - 1)
         IN  shorter \cup { Append(s, e) : s \in { t \in shorter : Len(t) = n - 1 }, e \in S }

\* The file ihealth.apitokens: absent, present but unreadable, or readable.
Files ==
    { [state |-> "missing", lines |-> <<>>], [state |-> "unreadable", lines |-> <<>>] }
    \cup { [state |-> "readable", lines |-> ls] : ls \in SeqsUpTo(Lines, MaxLines) }

----------------------------------------------------------------------------
\* str.strip() and str.split(sep)

RECURSIVE LStrip(_)
LStrip(s) ==
    IF s = <<>> THEN <<>>
    ELSE IF Head(s) \in Whitespace THEN LStrip(Tail(s))
    ELSE s

RECURSIVE RStrip(_)
RStrip(s) ==
    IF s = <<>> THEN <<>>
    ELSE IF s[Len(s)] \in Whitespace THEN RStrip(SubSeq(s, 1, Len(s) - 1))
    ELSE s

Strip(s) == RStrip(LStrip(s))

RECURSIVE SplitFrom(_, _, _, _)
SplitFrom(s, sep, done, cur) ==
    IF s = <<>> THEN Append(done, cur)
    ELSE IF Head(s) = sep THEN SplitFrom(Tail(s), sep, Append(done, cur), <<>>)
    ELSE SplitFrom(Tail(s), sep, done, Append(cur, Head(s)))

Split(s, sep) == SplitFrom(s, sep, <<>>, <<>>)

\* Python truthiness of a value that is None or a string.
Truthy(v) == v # None /\ v # ""

----------------------------------------------------------------------------
\* get_api_keys: [line.strip() for line in file if line.strip()]

RECURSIVE StripAll(_)
StripAll(ls) ==
    IF ls = <<>> THEN <<>>
    ELSE <<Strip(Head(ls))>> \o StripAll(Tail(ls))

RECURSIVE StripAndKeep(_)
StripAndKeep(ls) ==
    IF ls = <<>> THEN <<>>
    ELSE IF Strip(Head(ls)) # <<>> THEN <<Strip(Head(ls))>> \o StripAndKeep(Tail(ls))
    ELSE StripAndKeep(Tail(ls))

ReadApiKeys(ls) == StripAndKeep(ls)

----------------------------------------------------------------------------
\* The token endpoint's answers and get_access_token

Statuses == {200, 201, 401, 500}

Tokens == {"", "t1", "t2"}

Bodies ==
    { [kind |-> "nonjson", access_token |-> None],
      [kind |-> "jsonlist", access_token |-> None] }
    \cup { [kind |-> "jsonobject", access_token |-> t] : t \in Tokens \cup {None} }

Responses ==
    { [kind |-> "neterr", status |-> 0, body |-> [kind |-> "nonjson", access_token |-> None]] }
    \cup { [kind |-> "http", status |-> st, body |-> b] : st \in Statuses, b \in Bodies }

NoResponse == [kind |-> "none", status |-> 0, body |-> [kind |-> "nonjson", access_token |-> None]]

\* response.raise_for_status() raises HTTPError for 4xx and 5xx.
RaiseForStatusServerOnly(status) == 500 <= status /\ status < 600

RaiseForStatus(status) == 400 <= status /\ status < 600

Return(v) == [kind |-> "return", value |-> v]

Raise(exc) == [kind |-> "raise", value |-> exc]

NoResult == [kind |-> "none", value |-> None]

get_access_token(resp) ==
    IF resp.kind = "neterr" THEN Return(None)
    ELSE IF RaiseForStatus(resp.status) THEN Return(None)
    ELSE IF resp.body.kind = "nonjson" THEN Return(None)
    ELSE IF resp.body.kind = "jsonlist" THEN Raise("AttributeError")
    ELSE IF Truthy(resp.body.access_token) THEN Return(resp.body.access_token)
    ELSE Return(None)

----------------------------------------------------------------------------
\* get_access_token_from_list: the order of the loop and the unpacking

RECURSIVE Enumerate(_)
Enumerate(n) == IF n = 0 THEN <<>> ELSE Append(Enumerate(n - 1), n)

RECURSIVE ReversedEnumerateSkipFirst(_)
ReversedEnumerateSkipFirst(n) ==
    IF n <= 1 THEN <<>> ELSE <<n>> \o ReversedEnumerateSkipFirst(n - 1)

RECURSIVE ReversedEnumerate(_)
ReversedEnumerate(n) ==
    IF n = 0 THEN <<>> ELSE <<n>> \o ReversedEnumerate(n - 1)

\* client_id, client_secret = apikey.split(':') raises ValueError unless
\* the split yields exactly two parts.
UnpackFailsMaxSplit(parts) == Len(parts) < 2

UnpackFails(parts) == Len(parts) # 2

----------------------------------------------------------------------------
\* create_qkview and upload_qkview: the outcomes of the two commands

QKVIEW_FILENAME == "20241230-1159.qkview"

\* What running `nice -n 19 qkview -f <file>` can do: not start at all, or
\* exit with a status, its output being valid UTF-8 or not.
QkviewOutcomes ==
    { [started |-> FALSE, returncode |-> 127, utf8 |-> TRUE] }
    \cup { [started |-> TRUE, returncode |-> rc, utf8 |-> u] : rc \in {0, 1}, u \in BOOLEAN }

NoQkview == [started |-> FALSE, returncode |-> 0, utf8 |-> TRUE]

CreateQkviewResultSwallow(out) ==
    IF ~out.started THEN Raise("OSError")
    ELSE IF out.returncode # 0 THEN Return(<<"/var/tmp", QKVIEW_FILENAME>>)
    ELSE IF ~out.utf8 THEN Raise("UnicodeDecodeError")
    ELSE Return(<<"/var/tmp", QKVIEW_FILENAME>>)

CreateQkviewResult(out) ==
    IF ~out.started THEN Raise("OSError")
    ELSE IF out.returncode # 0
         THEN IF out.utf8 THEN Raise("CalledProcessError") ELSE Raise("UnicodeDecodeError")
    ELSE IF ~out.utf8 THEN Raise("UnicodeDecodeError")
    ELSE Return(<<"/var/tmp", QKVIEW_FILENAME>>)

\* What running curl can do: not start at all, fail to complete the
\* transfer, or complete it and receive the endpoint's HTTP status.
UploadStatuses == {200, 401, 500}

CurlOutcomes ==
    { [started |-> FALSE, transfer |-> FALSE, status |-> 0],
      [started |-> TRUE, transfer |-> FALSE, status |-> 0] }
    \cup { [started |-> TRUE, transfer |-> TRUE, status |-> st] : st \in UploadStatuses }

\* curl is run without --fail: its exit status is 0 whenever the transfer
\* completed, whatever HTTP status the endpoint answered with.
CurlExit(out) == IF out.transfer THEN 0 ELSE 7

AuthorizationHeaderNoToken(token) == <<"Authorization: Bearer ", "">>

AuthorizationHeader(token) == <<"Authorization: Bearer ", token>>

NoUpload == [header |-> <<>>, form |-> <<>>, outcome |-> [started |-> FALSE, transfer |-> FALSE, status |-> 0]]

NoError == [in |-> "", exc |-> ""]

----------------------------------------------------------------------------
VARIABLES
    pc,            \* where main is
    file,          \* the API keys file
    apikeys,       \* main's apikeys
    k,             \* position of the loop in reversed(list(enumerate(apikeys)))
    requests,      \* the token requests sent so far, in order
    response,      \* the token endpoint's answer to the last request
    result,        \* what get_access_token did with it
    access_token,  \* main's access_token
    qkview,        \* the outcome of the qkview command
    qkview_file,   \* main's qkview_file
    upload,        \* the curl invocation and its outcome
    error,         \* the exception that is propagating or was handled
    exitCode,      \* the process exit status, -1 while running
    stages         \* the functions main has called, in order

vars == <<pc, file, apikeys, k, requests, response, result, access_token,
          qkview, qkview_file, upload, error, exitCode, stages>>

Init ==
    /\ pc = "Start"
    /\ file \in Files
    /\ apikeys = <<>>
    /\ k = 1
    /\ requests = <<>>
    /\ response = NoResponse
    /\ result = NoResult
    /\ access_token = None
    /\ qkview = NoQkview
    /\ qkview_file = None
    /\ upload = NoUpload
    /\ error = NoError
    /\ exitCode = -1
    /\ stages = <<>>

\* apikeys = get_api_keys(APIKEYS_FILE)
GetApiKeys ==
    /\ pc = "Start"
    /\ stages' = Append(stages, "get_api_keys")
    /\ IF file.state = "readable"
       THEN /\ apikeys' = ReadApiKeys(file.lines)
            /\ pc' = "KeysLoaded"
            /\ error' = error
       ELSE /\ apikeys' = apikeys
            /\ pc' = "Raised"
            /\ error' = [in |-> "get_api_keys", exc |-> "IOError"]
    /\ UNCHANGED <<file, k, requests, response, result, access_token,
                   qkview, qkview_file, upload, exitCode>>

\* main calls get_access_token_from_list(TOKEN_URL, apikeys)
EnterTokenLoop ==
    /\ pc = "KeysLoaded"
    /\ pc' = "InTokenLoop"
    /\ k' = 1
    /\ stages' = Append(stages, "get_access_token_from_list")
    /\ UNCHANGED <<file, apikeys, requests, response, result, access_token,
                   qkview, qkview_file, upload, error, exitCode>>

\* One iteration of the loop over reversed(list(enumerate(apikeys))).
TryApiKey ==
    /\ pc = "InTokenLoop"
    /\ k <= Len(ReversedEnumerate(Len(apikeys)))
    /\ LET i == ReversedEnumerate(Len(apikeys))[k]
           parts == Split(apikeys[i], ":")
       IN  IF UnpackFails(parts)
           THEN /\ pc' = "Raised"
                /\ error' = [in |-> "get_access_token_from_list", exc |-> "ValueError"]
                /\ UNCHANGED <<k, requests, response, result, access_token>>
           ELSE \E resp \in Responses :
                  LET r == get_access_token(resp)
                      got == IF r.kind = "return" THEN r.value ELSE None
                  IN  /\ requests' = Append(requests,
                                            [i |-> i, client_id |-> parts[1],
                                             client_secret |-> parts[2], got |-> got])
                      /\ response' = resp
                      /\ result' = r
                      /\ IF r.kind = "return" /\ Truthy(r.value)
                         THEN /\ access_token' = r.value
                              /\ pc' = "TokenAcquired"
                              /\ k' = k
                         ELSE /\ access_token' = access_token
                              /\ pc' = pc
                              /\ k' = k + 1
                      /\ error' = error
    /\ UNCHANGED <<file, apikeys, qkview, qkview_file, upload, exitCode, stages>>

\* The loop is over: raise Exception('Unable to obtain a valid access token')
TokenExhausted ==
    /\ pc = "InTokenLoop"
    /\ k > Len(ReversedEnumerate(Len(apikeys)))
    /\ pc' = "Raised"
    /\ error' = [in |-> "get_access_token_from_list", exc |-> "Exception"]
    /\ UNCHANGED <<file, apikeys, k, requests, response, result, access_token,
                   qkview, qkview_file, upload, exitCode, stages>>

\* qkview_file = create_qkview(QKVIEW_FILENAME)
CreateQkview ==
    /\ pc = "TokenAcquired"
    /\ stages' = Append(stages, "create_qkview")
    /\ \E out \in QkviewOutcomes :
         LET r == CreateQkviewResult(out)
         IN  /\ qkview' = out
             /\ IF r.kind = "return"
                THEN /\ qkview_file' = r.value
                     /\ pc' = "SnapshotCreated"
                     /\ error' = error
                ELSE /\ qkview_file' = qkview_file
                     /\ pc' = "Raised"
                     /\ error' = [in |-> "create_qkview", exc |-> r.value]
    /\ UNCHANGED <<file, apikeys, k, requests, response, result, access_token,
                   upload, exitCode>>

\* upload_qkview(UPLOAD_URL, qkview_file, access_token)
UploadQkview ==
    /\ pc = "SnapshotCreated"
    /\ stages' = Append(stages, "upload_qkview")
    /\ \E out \in CurlOutcomes :
         /\ upload' = [header |-> AuthorizationHeader(access_token),
                       form |-> <<"qkview=@">> \o qkview_file,
                       outcome |-> out]
         /\ IF ~out.started
            THEN /\ pc' = "Raised"
                 /\ error' = [in |-> "upload_qkview", exc |-> "OSError"]
            ELSE IF CurlExit(out) # 0
            THEN /\ pc' = "Raised"
                 /\ error' = [in |-> "upload_qkview", exc |-> "CalledProcessError"]
            ELSE /\ pc' = "Uploaded"
                 /\ error' = error
    /\ UNCHANGED <<file, apikeys, k, requests, response, result, access_token,
                   qkview, qkview_file, exitCode>>

\* main returns: the interpreter exits with status 0
MainReturns ==
    /\ pc = "Uploaded"
    /\ pc' = "Done"
    /\ exitCode' = 0
    /\ UNCHANGED <<file, apikeys, k, requests, response, result, access_token,
                   qkview, qkview_file, upload, error, stages>>

MainExceptRetryOnce ==
    /\ pc = "Raised"
    /\ IF error.in = "create_qkview" /\ Len(stages) <= 4
       THEN pc' = "TokenAcquired" /\ exitCode' = exitCode
       ELSE pc' = "Failed" /\ exitCode' = 1
    /\ UNCHANGED <<file, apikeys, k, requests, response, result, access_token,
                   qkview, qkview_file, upload, error, stages>>

\* except Exception as e: logging.error(...); exit(1)
MainExcept ==
    /\ pc = "Raised"
    /\ pc' = "Failed"
    /\ exitCode' = 1
    /\ UNCHANGED <<file, apikeys, k, requests, response, result, access_token,
                   qkview, qkview_file, upload, error, stages>>

Next ==
    \/ GetApiKeys
    \/ EnterTokenLoop
    \/ TryApiKey
    \/ TokenExhausted
    \/ CreateQkview
    \/ UploadQkview
    \/ MainReturns
    \/ MainExcept

Spec == Init /\ [][Next]_vars

\* Every call main makes is a blocking call that returns.
FairSpec == Spec /\ WF_vars(Next)

TypeOK ==
    /\ pc \in {"Start", "KeysLoaded", "InTokenLoop", "TokenAcquired",
               "SnapshotCreated", "Uploaded", "Raised", "Done", "Failed"}
    /\ file \in Files
    /\ k \in 1..(Len(apikeys) + 1)
    /\ exitCode \in {-1, 0, 1}
    /\ access_token \in Tokens \cup {None}

----------------------------------------------------------------------------
\* Vocabulary of the properties

Range(s) == { s[j] : j \in DOMAIN s }

Last(s) == s[Len(s)]

IsPrefix(s, t) == Len(s) <= Len(t) /\ SubSeq(t, 1, Len(s)) = s

Terminated == pc \in {"Done", "Failed"}

Failing == pc \in {"Raised", "Failed"}

StageOrder == <<"get_api_keys", "get_access_token_from_list", "create_qkview", "upload_qkview">>

\* Number of ':' characters in a line.
ColonCount(s) == Cardinality({ j \in DOMAIN s : s[j] = ":" })

\* A line of the file with something other than whitespace on it.
UsableLine(l) == \E j \in DOMAIN l : l[j] \notin Whitespace

NoUsableLines == file.state = "readable" /\ \A l \in Range(file.lines) : ~UsableLine(l)

AllPairs == \A j \in DOMAIN apikeys : ColonCount(apikeys[j]) = 1

\* The error kinds of the specification, by the place that raises them.
ConfigError == Failing /\ error.in = "get_api_keys"

AuthError == Failing /\ error = [in |-> "get_access_token_from_list", exc |-> "Exception"]

UploadError == Failing /\ error.in = "upload_qkview"

\* The answer of the token endpoint is one of the failures the
\* specification lists, or a JSON body that is not an object.
ResponseFails(resp) ==
    \/ resp.kind = "neterr"
    \/ (400 <= resp.status /\ resp.status < 600)
    \/ resp.body.kind # "jsonobject"
    \/ resp.body.access_token \in {None, ""}

NetworkCallMade == requests # <<>> \/ upload # NoUpload

UploadAttempted == upload # NoUpload

UploadHttpSuccess == upload.outcome.transfer /\ upload.outcome.status \in 200..299

----------------------------------------------------------------------------
\* C1: the credentials are tried one at a time in reverse file order (the
\* j-th request is for the j-th line from the end); an attempt whose
\* response is a failure moves the loop on to the next credential; the first
\* successful attempt ends the loop, the token returned is the one of that
\* attempt's response, and no request is sent after it, so no earlier-listed
\* credential is attempted.
C1_Order ==
    /\ \A j \in DOMAIN requests :
          /\ requests[j].i = Len(apikeys) - j + 1
          /\ requests[j].i \in DOMAIN apikeys
          /\ requests[j].client_id \o <<":">> \o requests[j].client_secret
                = apikeys[requests[j].i]
    /\ \A j \in 1..(Len(requests) - 1) : requests[j].got = None
    /\ access_token # None =>
          /\ requests # <<>>
          /\ ~ResponseFails(response)
          /\ access_token = response.body.access_token
          /\ Last(requests).got = access_token
          /\ pc # "InTokenLoop"
    /\ access_token = None => \A j \in DOMAIN requests : requests[j].got = None

C1_Step ==
    /\ access_token # None => requests' = requests
    /\ requests' # requests =>
          /\ Len(requests') = Len(requests) + 1
          /\ IF ResponseFails(response')
             THEN access_token' = None /\ pc' = "InTokenLoop" /\ k' = k + 1 /\ error' = error
             ELSE access_token' = response'.body.access_token /\ pc' = "TokenAcquired"

C1_ReverseOrderFirstSuccess == []C1_Order /\ [][C1_Step]_vars

C1_Witness ==
    /\ pc = "TokenAcquired"
    /\ Len(apikeys) = 3
    /\ Len(requests) = 2
    /\ Last(requests).i = 2
    /\ access_token = "t2"

\* C2: with N >= 1 pairs that all fail, the run fails with the exception of
\* line 110 (AuthError) and exit status 1, after exactly one token request
\* per pair.
C2_AllFailAuthError ==
    (Terminated /\ file.state = "readable" /\ Len(apikeys) >= 1 /\ AllPairs
        /\ access_token = None)
    => /\ pc = "Failed"
       /\ AuthError
       /\ exitCode = 1
       /\ Len(requests) = Len(apikeys)
       /\ \A i \in DOMAIN apikeys :
             Cardinality({ j \in DOMAIN requests : requests[j].i = i }) = 1

C2_Witness ==
    /\ pc = "Failed"
    /\ AuthError
    /\ AllPairs
    /\ Len(apikeys) = 2
    /\ Len(requests) = 2

\* C3 as stated: a missing, unreadable or blank-only file makes get_api_keys
\* itself fail, the run never reaches KeysLoaded and no network call is made.
C3_Original ==
    (file.state \in {"missing", "unreadable"} \/ NoUsableLines)
    => /\ pc \in {"Start", "Raised", "Failed"}
       /\ Failing => ConfigError
       /\ ~NetworkCallMade

\* C3 (amended): a missing or unreadable file makes get_api_keys itself fail
\* and the run never reaches KeysLoaded; a readable file with no usable line
\* makes get_api_keys return the empty list, the run reaches KeysLoaded and
\* fails in token acquisition (AuthError); in both cases no network call is
\* made and the exit status is 1.
C3_LoaderFailure ==
    /\ file.state \in {"missing", "unreadable"} =>
          /\ pc \in {"Start", "Raised", "Failed"}
          /\ Failing => ConfigError
          /\ ~NetworkCallMade
          /\ Terminated => exitCode = 1
    /\ (NoUsableLines /\ pc # "Start") =>
          /\ apikeys = <<>>
          /\ pc \in {"KeysLoaded", "InTokenLoop", "Raised", "Failed"}
          /\ Failing => AuthError
          /\ ~NetworkCallMade
          /\ Terminated => exitCode = 1

C3_Witness ==
    /\ pc = "Failed"
    /\ NoUsableLines
    /\ Len(file.lines) = 2
    /\ AuthError

C3_WitnessMissing == pc = "Failed" /\ file.state = "missing" /\ ConfigError

\* C4: when the qkview command exits non-zero or cannot be executed,
\* create_qkview raises, upload_qkview is never called and the exit status
\* is 1.
C4_SnapshotFailureNoUpload ==
    ("create_qkview" \in Range(stages) /\ (~qkview.started \/ qkview.returncode # 0))
    => /\ Failing
       /\ error.in = "create_qkview"
       /\ qkview_file = None
       /\ ~UploadAttempted
       /\ "upload_qkview" \notin Range(stages)
       /\ Terminated => exitCode = 1

C4_Witness ==
    /\ pc = "Failed"
    /\ qkview.started
    /\ qkview.returncode = 1
    /\ error = [in |-> "create_qkview", exc |-> "CalledProcessError"]

\* C5 as stated: when the upload endpoint answers with a non-success HTTP
\* status the upload stage fails with UploadError and the run ends in Failed
\* with a non-zero exit status; the upload counts as successful only when
\* the status is a success.
C5_Original ==
    (UploadAttempted /\ upload.outcome.transfer /\ ~UploadHttpSuccess)
    => /\ UploadError
       /\ pc # "Uploaded"
       /\ pc # "Done"
       /\ exitCode # 0

\* C6 as stated: the exit status is 0 exactly when the keys were loaded, a
\* token was obtained, the qkview command exited 0 and the upload succeeded;
\* otherwise it is 1.
C6_Original ==
    Terminated =>
       /\ exitCode \in {0, 1}
       /\ exitCode = 0 <=>
             /\ file.state = "readable"
             /\ access_token # None
             /\ qkview.started /\ qkview.returncode = 0
             /\ UploadAttempted /\ UploadHttpSuccess

\* C7: the stages are entered in the order load, token, snapshot, upload,
\* each at most once and only after the previous one succeeded; nothing is
\* entered after a failure; the run eventually is Done or Failed and stays
\* there.
C7_StagesLinear ==
    /\ IsPrefix(stages, StageOrder)
    /\ "get_access_token_from_list" \in Range(stages) => file.state = "readable"
    /\ "create_qkview" \in Range(stages) => access_token # None
    /\ "upload_qkview" \in Range(stages) =>
          qkview.started /\ qkview.returncode = 0 /\ qkview_file # None

C7_Step ==
    /\ Failing => (stages' = stages /\ Failing')
    /\ Terminated => UNCHANGED vars

C7_LinearPass == []C7_StagesLinear /\ [][C7_Step]_vars /\ <>[]Terminated

C7_Witness == pc = "Done" /\ stages = StageOrder

\* C8: whenever an upload is attempted, the token in the Authorization
\* header is neither None nor empty and is the access_token of the response
\* to the last (the successful) token request of the run.
C8_BearerIsAcquiredToken ==
    UploadAttempted =>
       /\ Len(upload.header) = 2
       /\ upload.header[1] = "Authorization: Bearer "
       /\ upload.header[2] \notin {None, ""}
       /\ requests # <<>>
       /\ response.kind = "http"
       /\ response.body.kind = "jsonobject"
       /\ upload.header[2] = response.body.access_token

C8_Witness ==
    /\ UploadAttempted
    /\ upload.header[2] = "t1"
    /\ Len(requests) = 2

\* C9 as stated: get_access_token returns a token exactly when the status
\* is 200 and the JSON body has a non-empty access_token.
C9_Original ==
    result # NoResult =>
       ((result.kind = "return" /\ result.value # None)
          <=> /\ response.kind = "http"
              /\ response.status = 200
              /\ response.body.kind = "jsonobject"
              /\ response.body.access_token \notin {None, ""})

\* C9 (amended): get_access_token returns a token exactly when the response
\* has a status that is not 4xx or 5xx and its JSON body has a non-empty
\* access_token, and the token is that field; otherwise it yields no token.
C9_TokenIffNoErrorStatus ==
    result # NoResult =>
       /\ (result.kind = "return" /\ result.value # None)
             <=> /\ response.kind = "http"
                 /\ ~(400 <= response.status /\ response.status < 600)
                 /\ response.body.kind = "jsonobject"
                 /\ response.body.access_token \notin {None, ""}
       /\ (result.kind = "return" /\ result.value # None)
             => result.value = response.body.access_token

C9_Witness ==
    /\ result = [kind |-> "return", value |-> "t1"]
    /\ response.status = 201

C9_WitnessRejected ==
    /\ result = [kind |-> "return", value |-> None]
    /\ response.status = 401
    /\ response.body.access_token = "t1"

\* C10: when the loop reaches a line that does not have exactly one ':',
\* no request is sent for it, the loop ends with an exception at once, the
\* lines before it in the file are never tried, no qkview is created and
\* the exit status is 1.
C10_Reached ==
    /\ pc = "InTokenLoop"
    /\ k <= Len(apikeys)
    /\ ColonCount(apikeys[Len(apikeys) - k + 1]) # 1

C10_Inv ==
    (Failing /\ error = [in |-> "get_access_token_from_list", exc |-> "ValueError"])
    => /\ ColonCount(apikeys[Len(apikeys) - k + 1]) # 1
       /\ Len(requests) = k - 1
       /\ \A j \in DOMAIN requests : requests[j].i > Len(apikeys) - k + 1
       /\ access_token = None
       /\ "create_qkview" \notin Range(stages)
       /\ qkview = NoQkview
       /\ ~UploadAttempted
       /\ Terminated => exitCode = 1

C10_Step ==
    C10_Reached =>
       /\ pc' = "Raised"
       /\ error' = [in |-> "get_access_token_from_list", exc |-> "ValueError"]
       /\ requests' = requests

C10_MalformedLineAborts == []C10_Inv /\ [][C10_Step]_vars

C10_Witness ==
    /\ pc = "Failed"
    /\ error = [in |-> "get_access_token_from_list", exc |-> "ValueError"]
    /\ Len(apikeys) = 3
    /\ k = 2
    /\ ColonCount(apikeys[2]) = 3 - 1
    /\ ColonCount(apikeys[1]) = 1
    /\ Len(requests) = 1
====
